---- MODULE Spec2Model ----
(***************************************************************************)
(* Model of time_window: the TimeWindow value type with its pairwise       *)
(* algebra (src/time_window/time_window.py, class TimeWindow) and the      *)
(* TimeWindowsCollection with compressed() and complement().               *)
(*                                                                         *)
(* Timestamps (datetime objects) are the integers 0..MaxTime; a window     *)
(* [since, until) with integer boundaries contains the timestamp t iff it  *)
(* contains the whole unit [t, t+1), so the integer points decide every    *)
(* coverage question about windows with boundaries in 0..MaxTime.          *)
(***************************************************************************)
EXTENDS Integers, Sequences, FiniteSets, TLC

\* Largest timestamp of the model.
MaxTime == 3
\* Largest number of windows handed to a TimeWindowsCollection.
MaxLen == 3

\* The days after the epoch that a split window may reach, and the longest
\* max_delta handed to split, in ticks.
MaxDay == 35
MaxDelta == 4

\* The longest list handed to smallest_possible.
MaxArgLen == 2

\* The ticks between datetime.min and the epoch.
MaxBefore == 3

\* The longest list of a collection whose property is read by threads.
MaxCacheLen == 2

\* The seconds the clock of an ExpirableObject runs, and the longest ttl.
MaxClock == 4
MaxTtl == 2

\* The latest second after the epoch of a converted boundary, and the
\* largest UTC offset of a boundary, in seconds.
MaxEpoch == 3
MaxOffset == 1

VARIABLES
    self,       \* the TimeWindow a method is called on
    other,      \* the TimeWindow argument of the call
    call,       \* the TimeWindow method that was called ("none" before)
    ret,        \* what the call returned or raised
    coll,       \* the TimeWindowsCollection a method is called on
    period,     \* the bound handed to TimeWindowsCollection.complement
    ccall,      \* the collection method that was called ("none" before)
    cret,       \* what the collection call returned or raised
    arg,        \* the argument of a call that takes no TimeWindow
    aware,      \* whether the boundaries of self carry a tzinfo
    split_pc,   \* where a running split call stands ("idle" without one)
    split_chunk_since, \* the local chunk_since of the running split call
    split_chunks, \* the local chunks of the running split call
    coll_sorted_since, \* the sorted_since argument coll was constructed with
    tpc,        \* where each thread stands in the sorted-by-since property
    tlocal,     \* the list each thread got from sorted()
    tret,       \* what the property returned to each thread last
    populated,  \* how often the sorted-by-since cache of coll was assigned
    now,        \* the clock utcnow_tzaware() reads, in seconds
    expires_at, \* ExpirableObject.expires_at
    last_updated_at, \* ExpirableObject.last_updated_at
    ttl_arg,    \* the value the ttl setter was last called with
    ecall,      \* the ExpirableObject member used last ("none" before)
    eret,       \* what that member returned
    tz_since,   \* the UTC offset of self.since, in seconds
    tz_until,   \* the UTC offset of self.until, in seconds
    stamps,     \* the pair of epoch timestamps a conversion returned
    complement_pc, \* where a call of the collection's complement() stands
    inverse,    \* its list of candidate gaps
    processed   \* how many members its for loop has gone through

\* The locals of a split call that is executed step by step.
loopVars == <<split_pc, split_chunk_since, split_chunks>>

\* No split call is running.
LoopIdle == split_pc = "idle" /\ split_chunk_since = 0 /\ split_chunks = <<>>

\* The threads that read the sorted-by-since property of one collection.
Threads == {"t1", "t2"}

\* The property executed statement by statement by each thread.
cacheVars == <<coll_sorted_since, tpc, tlocal, tret, populated>>

\* No thread has touched the property.
CacheIdle ==
    /\ coll_sorted_since = FALSE
    /\ tpc = [t \in Threads |-> "idle"]
    /\ tlocal = [t \in Threads |-> <<>>]
    /\ tret = [t \in Threads |-> [kind |-> "None", tws |-> <<>>]]
    /\ populated = 0

\* A point in time that may be unset (Python None).
NoTime == [is_none |-> TRUE, at |-> 0]
At(t) == [is_none |-> FALSE, at |-> t]

\* What a member of ExpirableObject returns: nan, seconds, False or True.
NoAnswer == [kind |-> "none", seconds |-> 0]
NaN == [kind |-> "nan", seconds |-> 0]
Seconds(n) == [kind |-> "float", seconds |-> n]
Bool(b) == [kind |-> IF b THEN "True" ELSE "False", seconds |-> 0]

\* The ExpirableObject and its clock.
expirableVars == <<now, expires_at, last_updated_at, ttl_arg, ecall, eret>>

\* ExpirableObject.__init__, at the start of the clock.
ExpirableNew ==
    /\ now = 0
    /\ expires_at = NoTime
    /\ last_updated_at = NoTime
    /\ ttl_arg = 0
    /\ ecall = "none"
    /\ eret = NoAnswer

\* The offsets of an aware window and the result of a conversion to epoch
\* timestamps.
epochVars == <<tz_since, tz_until, stamps>>

\* Boundaries in UTC, nothing converted.
EpochIdle == tz_since = 0 /\ tz_until = 0 /\ stamps = <<0, 0>>

\* The for loop of the collection's complement(), one member per step.
complementVars == <<complement_pc, inverse, processed>>

\* No call of complement() is under way.
ComplementIdle == complement_pc = "idle" /\ inverse = <<>> /\ processed = 0

\* What the calls that are modelled as one step leave alone.
restVars ==
    <<loopVars, cacheVars, expirableVars, epochVars, complementVars>>
RestIdle ==
    LoopIdle /\ CacheIdle /\ ExpirableNew /\ EpochIdle /\ ComplementIdle

vars ==
    <<self, other, call, ret, coll, period, ccall, cret, arg, aware, restVars>>

Timestamps == 0..MaxTime

max(x, y) == IF x >= y THEN x ELSE y
min(x, y) == IF x <= y THEN x ELSE y

----------------------------------------------------------------------------
(* Values a method returns: None, False/True, one TimeWindow, a list of    *)
(* TimeWindow objects, or a raised exception.  tws holds the windows.      *)

None == [kind |-> "None", tws |-> <<>>]
False == [kind |-> "False", tws |-> <<>>]
True == [kind |-> "True", tws |-> <<>>]
Raise(exception) == [kind |-> exception, tws |-> <<>>]
Single(tw) == [kind |-> "TimeWindow", tws |-> <<tw>>]
List(tws) == [kind |-> "list", tws |-> tws]

IsRaised(r) ==
    r.kind \in {"ValueError", "TypeError", "IndexError", "OverflowError"}

\* datetime.min, the earliest datetime there is.
datetime_min == 0 - MaxBefore

\* A value that is no datetime (a str, an int, None): it stands outside the
\* datetimes.
NotADatetime == datetime_min - 1

\* isinstance(x, datetime)
isinstance_datetime(x) == x # NotADatetime

\* Faulty variant of TimeWindow.__init__: until must be later than since, so
\* a zero-width window is refused.
TimeWindowRefusesZeroWidth(tm_since, tm_until) ==
    IF ~isinstance_datetime(tm_since) THEN Raise("TypeError")
    ELSE IF ~isinstance_datetime(tm_until) THEN Raise("TypeError")
    ELSE IF ~(tm_until > tm_since) THEN Raise("ValueError")
    ELSE Single([since |-> tm_since, until |-> tm_until])

\* TimeWindow.__init__: the object, the TypeError of a boundary that is no
\* datetime, or the ValueError of a reversed pair.
TimeWindow(tm_since, tm_until) ==
    IF ~isinstance_datetime(tm_since) THEN Raise("TypeError")
    ELSE IF ~isinstance_datetime(tm_until) THEN Raise("TypeError")
    ELSE IF ~(tm_until >= tm_since) THEN Raise("ValueError")
    ELSE Single([since |-> tm_since, until |-> tm_until])

\* Every window the constructor accepts over the model's timestamps.
TimeWindows ==
    {TimeWindow(s, u).tws[1] :
        <<s, u>> \in {p \in Timestamps \X Timestamps :
                        TimeWindow(p[1], p[2]).kind = "TimeWindow"}}

\* A list of two constructor calls: the first exception raised wins.
ListOf2(r1, r2) ==
    IF IsRaised(r1) THEN r1
    ELSE IF IsRaised(r2) THEN r2
    ELSE List(<<r1.tws[1], r2.tws[1]>>)

\* Faulty variant of _sort_time_windows_since: the comparison is reversed.
sortLatestFirst(tw1, tw2) ==
    IF tw1.since > tw2.since THEN <<tw1, tw2>> ELSE <<tw2, tw1>>

sort_time_windows_since(tw1, tw2) ==
    IF tw1.since < tw2.since THEN <<tw1, tw2>> ELSE <<tw2, tw1>>

\* Faulty variant of overlaps: windows whose common range is a single point
\* count as overlapping.
overlapsInclusive(slf, othr) ==
    LET since == max(slf.since, othr.since)
        until == min(slf.until, othr.until)
    IN  IF since > until THEN FALSE ELSE TRUE

overlaps(slf, othr) ==
    LET since == max(slf.since, othr.since)
        until == min(slf.until, othr.until)
    IN  IF since >= until THEN FALSE ELSE TRUE

contiguous(slf, othr) ==
    IF ~overlaps(slf, othr)
    THEN LET tws == sort_time_windows_since(slf, othr)
         IN  IF tws[1].until = tws[2].since THEN List(tws) ELSE False
    ELSE False

\* Faulty variant of contains_datetime: the upper boundary is included.
contains_datetime_closed(slf, x) == slf.since <= x /\ x <= slf.until

\* contains(other) for a datetime argument.
contains_datetime(slf, x) == slf.since <= x /\ x < slf.until

\* contains(other) for a TimeWindow argument.
contains_window(slf, othr) ==
    slf.since <= othr.since /\ slf.until >= othr.until

\* Faulty variant of union: the merged window ends where other ends.
unionEndsAtOther(slf, othr) ==
    IF ~overlaps(slf, othr)
    THEN LET tws == sort_time_windows_since(slf, othr)
         IN  IF tws[1].until = tws[2].since
             THEN TimeWindow(tws[1].since, tws[2].until)
             ELSE List(tws)
    ELSE LET since == min(slf.since, othr.since)
             until == othr.until
         IN  TimeWindow(since, until)

union(slf, othr) ==
    IF ~overlaps(slf, othr)
    THEN LET tws == sort_time_windows_since(slf, othr)
         IN  IF tws[1].until = tws[2].since
             THEN TimeWindow(tws[1].since, tws[2].until)
             ELSE List(tws)
    ELSE LET since == min(slf.since, othr.since)
             until == max(slf.until, othr.until)
         IN  TimeWindow(since, until)

\* Faulty variant of intersection: an empty common range [t, t) is returned
\* as a window instead of None.
intersectionKeepsEmpty(slf, othr) ==
    LET since == max(slf.since, othr.since)
        until == min(slf.until, othr.until)
    IN  IF since > until THEN None ELSE TimeWindow(since, until)

intersection(slf, othr) ==
    LET since == max(slf.since, othr.since)
        until == min(slf.until, othr.until)
    IN  IF since >= until THEN None ELSE TimeWindow(since, until)

\* TimeWindow.__eq__
eq(tw1, tw2) == tw1.since = tw2.since /\ tw1.until = tw2.until

\* Faulty variant of complement: with a common start the remainder begins
\* at the overlap's since instead of its until.
complementKeepsOverlap(slf, othr) ==
    LET overlap == intersection(slf, othr)
    IN  IF overlap.kind = "None"
        THEN TimeWindow(slf.since, slf.until)
        ELSE IF IsRaised(overlap) THEN overlap
        ELSE IF eq(overlap.tws[1], slf) THEN None
        ELSE IF overlap.tws[1].since = slf.since
        THEN TimeWindow(overlap.tws[1].since, slf.until)
        ELSE IF overlap.tws[1].until = slf.until
        THEN TimeWindow(slf.since, overlap.tws[1].since)
        ELSE ListOf2(TimeWindow(slf.since, othr.since),
                     TimeWindow(othr.until, slf.until))

complement(slf, othr) ==
    LET overlap == intersection(slf, othr)
    IN  IF overlap.kind = "None"
        THEN TimeWindow(slf.since, slf.until)
        ELSE IF IsRaised(overlap) THEN overlap
        ELSE IF eq(overlap.tws[1], slf) THEN None
        ELSE IF overlap.tws[1].since = slf.since
        THEN TimeWindow(overlap.tws[1].until, slf.until)
        ELSE IF overlap.tws[1].until = slf.until
        THEN TimeWindow(slf.since, overlap.tws[1].since)
        ELSE ListOf2(TimeWindow(slf.since, othr.since),
                     TimeWindow(othr.until, slf.until))

\* The argument of a call: a datetime, a TimeWindow, a value of another
\* type, the two boundaries handed to the constructor, or a list of windows.
NoArg == [tws |-> <<>>, since |-> 0, until |-> 0, type |-> "none", delta |-> 0]
DatetimeArg(x) ==
    [tws |-> <<>>, since |-> x, until |-> x, type |-> "datetime", delta |-> 0]
WindowArg(tw) ==
    [tws |-> <<>>, since |-> tw.since, until |-> tw.until,
     type |-> "TimeWindow", delta |-> 0]
OtherArg ==
    [tws |-> <<>>, since |-> 0, until |-> 0, type |-> "other", delta |-> 0]
BoundariesArg(tm_since, tm_until) ==
    [tws |-> <<>>, since |-> tm_since, until |-> tm_until,
     type |-> "boundaries", delta |-> 0]
ListArg(tws) ==
    [tws |-> tws, since |-> 0, until |-> 0, type |-> "list", delta |-> 0]
TimedeltaArg(d) ==
    [tws |-> <<>>, since |-> 0, until |-> 0, type |-> "timedelta", delta |-> d]

\* TimeWindow.contains: the isinstance dispatch on the argument.
contains(slf, x) ==
    IF x.type = "datetime"
    THEN (IF contains_datetime(slf, x.since) THEN True ELSE False)
    ELSE IF x.type = "TimeWindow"
    THEN (IF contains_window(slf, [since |-> x.since, until |-> x.until])
          THEN True ELSE False)
    ELSE Raise("TypeError")

\* x in slf: __contains__ = contains
in_operator(slf, x) == contains(slf, x)

\* min([tw.since ...]) and max([tw.until ...]) of a non-empty list.
min_since(tws) ==
    CHOOSE m \in {tws[i].since : i \in 1..Len(tws)} :
        \A i \in 1..Len(tws) : m <= tws[i].since
max_until(tws) ==
    CHOOSE m \in {tws[i].until : i \in 1..Len(tws)} :
        \A i \in 1..Len(tws) : m >= tws[i].until

\* TimeWindow.smallest_possible: min() of an empty list raises ValueError.
smallest_possible(tws) ==
    IF tws = <<>> THEN Raise("ValueError")
    ELSE TimeWindow(min_since(tws), max_until(tws))

----------------------------------------------------------------------------
(* TimeWindowsCollection                                                   *)

\* The value of the sorted-by-since cache: unset (Python None) or a list.
Unset == [tws |-> <<>>, is_none |-> TRUE]
Cached(tws) == [tws |-> tws, is_none |-> FALSE]

\* TimeWindowsCollection.__init__
TimeWindowsCollection(time_windows, sorted_since) ==
    [time_windows_raw |-> time_windows,
     time_windows_sorted_by_since |->
        IF sorted_since THEN Cached(time_windows) ELSE Unset]

\* The time_windows property.
time_windows(c) == c.time_windows_raw

RECURSIVE InsertBeforeEqual(_, _)
\* Faulty variant of InsertStable: tw goes before the elements of equal
\* key, which reverses ties.
InsertBeforeEqual(tw, sortedtws) ==
    IF sortedtws = <<>> THEN <<tw>>
    ELSE IF Head(sortedtws).since < tw.since
    THEN <<Head(sortedtws)>> \o InsertBeforeEqual(tw, Tail(sortedtws))
    ELSE <<tw>> \o sortedtws

\* list.insert of tw after every element whose key is <= its own: one step
\* of a stable sort on the key since.
RECURSIVE InsertStable(_, _)
InsertStable(tw, sortedtws) ==
    IF sortedtws = <<>> THEN <<tw>>
    ELSE IF Head(sortedtws).since <= tw.since
    THEN <<Head(sortedtws)>> \o InsertStable(tw, Tail(sortedtws))
    ELSE <<tw>> \o sortedtws

\* sorted(tws, key=lambda tw: tw.since): Python's sort is stable.
RECURSIVE sorted(_)
sorted(tws) ==
    IF tws = <<>> THEN <<>>
    ELSE InsertStable(tws[Len(tws)], sorted(SubSeq(tws, 1, Len(tws) - 1)))

\* What the time_windows_sorted_by_since property returns.
time_windows_sorted_by_since(c) ==
    IF c.time_windows_sorted_by_since.is_none
    THEN sorted(c.time_windows_raw)
    ELSE c.time_windows_sorted_by_since.tws

\* Faulty variant of AfterSortedAccess: the receiver's own list is sorted
\* in place (list.sort instead of sorted).
AfterSortedAccessInPlace(c) ==
    [time_windows_raw |-> time_windows_sorted_by_since(c),
     time_windows_sorted_by_since |-> Cached(time_windows_sorted_by_since(c))]

\* The receiver after the property was read: the cache is filled.
AfterSortedAccess(c) ==
    [c EXCEPT !.time_windows_sorted_by_since =
        Cached(time_windows_sorted_by_since(c))]

\* A returned collection, or the exception the call raised.
Returned(c) == [kind |-> "TimeWindowsCollection", coll |-> c]
CRaise(exception) ==
    [kind |-> exception, coll |-> TimeWindowsCollection(<<>>, FALSE)]
NoCall == [kind |-> "none", coll |-> TimeWindowsCollection(<<>>, FALSE)]

\* stack.append(TimeWindow(latest['since'], latest['until']))
AppendLatest(st) ==
    LET tw == TimeWindow(st.since, st.until)
    IN  IF IsRaised(tw) THEN [st EXCEPT !.raised = tw.kind]
        ELSE [st EXCEPT !.stack = Append(st.stack, tw.tws[1])]

\* Faulty variant of Merges: a strict test, which leaves touching windows
\* unmerged.
MergesStrict(latest_until, current) == latest_until > current.since

\* The merge test of the sweep: latest['until'] >= current.since.
Merges(latest_until, current) == latest_until >= current.since

\* Faulty variant of MergedUntil: the running until is overwritten, which
\* shrinks the range when current ends inside it.
MergedUntilOverwritten(latest_until, current) == current.until

\* The running until after a merge: max(latest['until'], current.until).
MergedUntil(latest_until, current) == max(latest_until, current.until)

\* The for loop of compressed() over tws[i..]; st is {latest, stack}.
RECURSIVE CompressLoop(_, _, _)
CompressLoop(tws, i, st) ==
    IF i > Len(tws) \/ st.raised # "" THEN st
    ELSE LET current == tws[i]
         IN  IF st.until_is_none
             THEN CompressLoop(tws, i + 1,
                    [st EXCEPT !.since = current.since,
                               !.until = current.until,
                               !.until_is_none = FALSE])
             ELSE IF Merges(st.until, current)
             THEN CompressLoop(tws, i + 1,
                    [st EXCEPT !.until = MergedUntil(st.until, current)])
             ELSE CompressLoop(tws, i + 1,
                    [AppendLatest(st) EXCEPT !.since = current.since,
                                             !.until = current.until])

\* Faulty variant of compressed: the running range left after the sweep is
\* never emitted.
compressedDropsLast(c) ==
    LET tws == time_windows_sorted_by_since(c)
    IN  IF tws = <<>> THEN Returned(TimeWindowsCollection(<<>>, FALSE))
        ELSE LET swept == CompressLoop(tws, 1,
                            [since |-> 0, until |-> 0, until_is_none |-> TRUE,
                             stack |-> <<>>, raised |-> ""])
             IN  IF swept.raised # "" THEN CRaise(swept.raised)
                 ELSE Returned(TimeWindowsCollection(swept.stack, TRUE))

compressed(c) ==
    LET tws == time_windows_sorted_by_since(c)
    IN  IF tws = <<>> THEN Returned(TimeWindowsCollection(<<>>, FALSE))
        ELSE LET swept == CompressLoop(tws, 1,
                            [since |-> 0, until |-> 0, until_is_none |-> TRUE,
                             stack |-> <<>>, raised |-> ""])
                 final == IF swept.raised # "" THEN swept
                          ELSE AppendLatest(swept)
             IN  IF final.raised # "" THEN CRaise(final.raised)
                 ELSE Returned(TimeWindowsCollection(final.stack, TRUE))

\* helpers.make_sequence applied to what TimeWindow.complement returned.
make_sequence(elements) ==
    IF elements.kind = "list" THEN elements.tws
    ELSE IF elements.kind = "None" THEN <<>>
    ELSE <<elements.tws[1]>>

\* The for loop of complement() over tws[i..]; st is {inverse, raised}.
RECURSIVE ComplementLoop(_, _, _)
ComplementLoop(tws, i, st) ==
    IF i > Len(tws) \/ st.raised # "" THEN st
    ELSE IF st.inverse = <<>>
    THEN [st EXCEPT !.raised = "IndexError"]
    ELSE LET n == Len(st.inverse)
             piece == complement(st.inverse[n], tws[i])
         IN  IF IsRaised(piece) THEN [st EXCEPT !.raised = piece.kind]
             ELSE ComplementLoop(tws, i + 1,
                    [st EXCEPT !.inverse =
                        SubSeq(st.inverse, 1, n - 1) \o make_sequence(piece)])

collection_complement(c, prd) ==
    LET tws == time_windows_sorted_by_since(c)
        done == ComplementLoop(tws, 1, [inverse |-> <<prd>>, raised |-> ""])
    IN  IF done.raised # "" THEN CRaise(done.raised)
        ELSE Returned(TimeWindowsCollection(done.inverse, TRUE))

----------------------------------------------------------------------------
(* The pairwise algebra as a state machine: two windows are constructed,   *)
(* then one method of self is called with other.                          *)

WindowIdle ==
    /\ coll = TimeWindowsCollection(<<>>, FALSE)
    /\ period = [since |-> 0, until |-> 0]
    /\ ccall = "none"
    /\ cret = NoCall
    /\ arg = NoArg
    /\ aware = FALSE
    /\ RestIdle

InitWindow ==
    /\ self \in TimeWindows
    /\ other \in TimeWindows
    /\ call = "none"
    /\ ret = None
    /\ WindowIdle

Returns(method, value) ==
    /\ call = "none"
    /\ call' = method
    /\ ret' = value
    /\ UNCHANGED <<self, other, coll, period, ccall, cret, arg, aware,
                   restVars>>

Overlaps == Returns("overlaps", IF overlaps(self, other) THEN True ELSE False)
Contiguous == Returns("contiguous", contiguous(self, other))
Union == Returns("union", union(self, other))
Intersection == Returns("intersection", intersection(self, other))
Complement == Returns("complement", complement(self, other))

NextWindow ==
    \/ Overlaps
    \/ Contiguous
    \/ Union
    \/ Intersection
    \/ Complement

SpecWindow == InitWindow /\ [][NextWindow]_vars

----------------------------------------------------------------------------
(* The collection as a state machine: a collection is constructed from a   *)
(* list (sorted_since left at its default), then compressed() and          *)
(* complement(period) are called on it any number of times.                *)

RECURSIVE ListsUpTo(_)
ListsUpTo(n) ==
    IF n = 0 THEN {<<>>}
    ELSE ListsUpTo(n - 1) \cup
         {Append(l, tw) : l \in {m \in ListsUpTo(n - 1) : Len(m) = n - 1},
                          tw \in TimeWindows}

CollectionIdle ==
    /\ self = [since |-> 0, until |-> 0]
    /\ other = [since |-> 0, until |-> 0]
    /\ call = "none"
    /\ ret = None
    /\ arg = NoArg
    /\ aware = FALSE
    /\ RestIdle

InitCollection ==
    /\ \E l \in ListsUpTo(MaxLen) : coll = TimeWindowsCollection(l, FALSE)
    /\ period \in TimeWindows
    /\ ccall = "none"
    /\ cret = NoCall
    /\ CollectionIdle

Compressed ==
    /\ ccall' = "compressed"
    /\ cret' = compressed(coll)
    /\ coll' = AfterSortedAccess(coll)
    /\ UNCHANGED <<self, other, call, ret, period, arg, aware, restVars>>

CollectionComplement ==
    /\ ccall' = "complement"
    /\ cret' = collection_complement(coll, period)
    /\ coll' = AfterSortedAccess(coll)
    /\ UNCHANGED <<self, other, call, ret, period, arg, aware, restVars>>

NextCollection ==
    \/ Compressed
    \/ CollectionComplement

SpecCollection == InitCollection /\ [][NextCollection]_vars

----------------------------------------------------------------------------
(* Calls with arbitrary arguments: the constructor with any two values,    *)
(* contains and the in operator with a datetime, a window or another       *)
(* value, smallest_possible with any list of windows.                      *)

\* Everything that can be handed to the constructor as a boundary.
AnyValues == Timestamps \cup {NotADatetime}

\* Everything that can be handed to contains.
ContainsArgs ==
    {DatetimeArg(x) : x \in Timestamps}
        \cup {WindowArg(tw) : tw \in TimeWindows}
        \cup {OtherArg}

InitArgs ==
    /\ self \in TimeWindows
    /\ other = [since |-> 0, until |-> 0]
    /\ call = "none"
    /\ ret = None
    /\ arg = NoArg
    /\ aware = FALSE
    /\ RestIdle
    /\ coll = TimeWindowsCollection(<<>>, FALSE)
    /\ period = [since |-> 0, until |-> 0]
    /\ ccall = "none"
    /\ cret = NoCall

Called(method, argument, value) ==
    /\ call = "none"
    /\ call' = method
    /\ arg' = argument
    /\ ret' = value
    /\ UNCHANGED <<self, other, coll, period, ccall, cret, aware, restVars>>

Construct ==
    \E tm_since \in AnyValues, tm_until \in AnyValues :
        Called("TimeWindow", BoundariesArg(tm_since, tm_until),
               TimeWindow(tm_since, tm_until))

Contains == \E x \in ContainsArgs : Called("contains", x, contains(self, x))

In == \E x \in ContainsArgs : Called("in", x, in_operator(self, x))

SmallestPossible ==
    \E tws \in ListsUpTo(MaxArgLen) :
        Called("smallest_possible", ListArg(tws), smallest_possible(tws))

NextArgs ==
    \/ Construct
    \/ Contains
    \/ In
    \/ SmallestPossible

SpecArgs == InitArgs /\ [][NextArgs]_vars

----------------------------------------------------------------------------
(* Splitting.  A datetime is a number of ticks after the epoch, a naive or *)
(* an aware one according to the flag of the window; a timedelta is a      *)
(* number of ticks.                                                        *)

\* The resolution of the clock: timedelta(days=1) in ticks.
TicksPerDay == 2

\* timedelta(days=7), in days
DaysPerWeek == 7

\* The epoch: Tuesday 30 December 2014, 00:00 (weekday() counts from Monday).
Epoch == [month |-> 12, day |-> 30, weekday |-> 1]

\* The days of the months of 2014 and of 2015, both common years.
MonthLengths == <<31, 28, 31, 30, 31, 30, 31, 31, 30, 31, 30, 31>>

RECURSIVE DaysBefore(_)
\* The days of the year that precede month m.
DaysBefore(m) == IF m <= 1 THEN 0 ELSE DaysBefore(m - 1) + MonthLengths[m - 1]

\* The days of a year.
DaysInYear == DaysBefore(Len(MonthLengths) + 1)

\* The days between 1 January of the year of the epoch and a datetime.
days_since_new_year(dt) ==
    DaysBefore(Epoch.month) + Epoch.day - 1 + (dt \div TicksPerDay)

\* dt.year, counted from the year of the epoch.
year(dt) == days_since_new_year(dt) \div DaysInYear

\* The day a datetime falls on, counted from 1 January of its year.
day_of_year(dt) == days_since_new_year(dt) % DaysInYear

\* dt.month
month(dt) ==
    CHOOSE m \in 1..Len(MonthLengths) :
        /\ DaysBefore(m) <= day_of_year(dt)
        /\ day_of_year(dt) < DaysBefore(m + 1)

\* dt.weekday()
weekday(dt) == (Epoch.weekday + (dt \div TicksPerDay)) % DaysPerWeek

\* Faulty variant of replace_midnight: the time of day is kept.
replace_keeps_time(dt) == dt

\* dt.replace(hour=0, minute=0, second=0, microsecond=0)
replace_midnight(dt) == dt - (dt % TicksPerDay)

\* Midnight of the given day of the given year, as a datetime.
midnight_of(yr, day) ==
    (yr * DaysInYear + day - (DaysBefore(Epoch.month) + Epoch.day - 1))
        * TicksPerDay

\* _get_first_day_of_next_month: one month later (January of the next year
\* after December), on day 1, at 00:00.
first_day_of_next_month(dt) ==
    IF month(dt) = Len(MonthLengths)
    THEN midnight_of(year(dt) + 1, DaysBefore(1))
    ELSE midnight_of(year(dt), DaysBefore(month(dt) + 1))

\* The tzinfo of what datetime.combine(date, time) returns: none, whatever
\* the argument carried.
combine_is_aware(dt_is_aware) == FALSE

\* An ordering comparison of two datetimes raises TypeError when one is naive
\* and the other aware.
comparable(a_is_aware, b_is_aware) == a_is_aware = b_is_aware

\* The datetimes a split window is built from.
SplitTimestamps == 0..(MaxDay * TicksPerDay)

SplitWindows ==
    {[since |-> s, until |-> u] : s \in SplitTimestamps, u \in SplitTimestamps}
        \cap {tw \in [since : SplitTimestamps, until : SplitTimestamps] :
                  ~IsRaised(TimeWindow(tw.since, tw.until))}

\* tm + delta on a datetime: below datetime.min there is no datetime (above
\* datetime.max neither, which no sum of the model comes near).
in_datetime_range(tm) == tm >= datetime_min

\* TimeWindow.from_timedelta
from_timedelta(tm, delta) ==
    IF ~in_datetime_range(tm + delta) THEN Raise("OverflowError")
    ELSE TimeWindow(min(tm, tm + delta), max(tm, tm + delta))

\* Faulty variant of chunk_delta: every chunk gets the full max_delta.
chunk_delta_fixed(max_delta, remaining) == max_delta

\* chunk_delta = min(max_delta, self.until - chunk_since)
chunk_delta(max_delta, remaining) == min(max_delta, remaining)

RECURSIVE SplitLoop(_, _, _, _)
\* The while loop of split; chunks is the list built so far, a value at
\* every iteration.
SplitLoop(chunk_since, until, max_delta, chunks) ==
    IF Len(chunks) >= 0 /\ chunk_since < until
    THEN LET delta == chunk_delta(max_delta, until - chunk_since)
             chunk == from_timedelta(chunk_since, delta)
         IN  IF IsRaised(chunk) THEN chunk
             ELSE SplitLoop(chunk_since + delta, until, max_delta,
                            chunks \o chunk.tws)
    ELSE List(chunks)

\* TimeWindow.split
split(slf, max_delta) == SplitLoop(slf.since, slf.until, max_delta, <<>>)

\* The last append of a split_per loop: the rest of the window, returned.
Remainder(start_time, until, periods) ==
    LET last == TimeWindow(start_time, until)
    IN  IF IsRaised(last) THEN last ELSE List(periods \o last.tws)

RECURSIVE DayLoop(_, _, _)
\* The while loop of split_per_day; day_periods is the list built so far, a
\* value at every iteration (so are week_periods and month_periods below).
DayLoop(start_time, until, day_periods) ==
    LET end_time == replace_midnight(start_time) + TicksPerDay
        period_ == TimeWindow(start_time, end_time)
    IN  IF Len(day_periods) >= 0 /\ end_time > until
        THEN Remainder(start_time, until, day_periods)
        ELSE IF IsRaised(period_) THEN period_
        ELSE DayLoop(end_time, until, day_periods \o period_.tws)

\* TimeWindow.split_per_day
split_per_day(slf) == DayLoop(slf.since, slf.until, <<>>)

RECURSIVE WeekLoop(_, _, _)
\* The while loop of split_per_week.
WeekLoop(start_time, until, week_periods) ==
    LET beginning_of_week == start_time - weekday(start_time) * TicksPerDay
        end_of_week ==
            replace_midnight(beginning_of_week) + DaysPerWeek * TicksPerDay
        period_ == TimeWindow(start_time, end_of_week)
    IN  IF Len(week_periods) >= 0 /\ end_of_week > until
        THEN Remainder(start_time, until, week_periods)
        ELSE IF IsRaised(period_) THEN period_
        ELSE WeekLoop(end_of_week, until, week_periods \o period_.tws)

\* TimeWindow.split_per_week
split_per_week(slf) == WeekLoop(slf.since, slf.until, <<>>)

RECURSIVE MonthLoop(_, _, _, _, _)
\* The while loop of split_per_month: end_time is what datetime.combine
\* returned, self.until is the boundary of the window.
MonthLoop(start_time, until, start_is_aware, until_is_aware, month_periods) ==
    LET end_time == first_day_of_next_month(start_time)
        end_is_aware == combine_is_aware(start_is_aware)
        period_ == TimeWindow(start_time, end_time)
    IN  IF ~comparable(end_is_aware, until_is_aware) THEN Raise("TypeError")
        ELSE IF Len(month_periods) >= 0 /\ end_time > until
        THEN Remainder(start_time, until, month_periods)
        ELSE IF ~comparable(end_is_aware, start_is_aware)
        THEN Raise("TypeError")
        ELSE IF IsRaised(period_) THEN period_
        ELSE MonthLoop(end_time, until, end_is_aware, until_is_aware,
                       month_periods \o period_.tws)

\* TimeWindow.split_per_month
split_per_month(slf, is_aware) ==
    MonthLoop(slf.since, slf.until, is_aware, is_aware, <<>>)

InitSplit ==
    /\ self \in SplitWindows
    /\ aware \in BOOLEAN
    /\ RestIdle
    /\ other = [since |-> 0, until |-> 0]
    /\ call = "none"
    /\ ret = None
    /\ arg = NoArg
    /\ coll = TimeWindowsCollection(<<>>, FALSE)
    /\ period = [since |-> 0, until |-> 0]
    /\ ccall = "none"
    /\ cret = NoCall

Split ==
    \E max_delta \in 1..MaxDelta :
        Called("split", TimedeltaArg(max_delta), split(self, max_delta))

SplitPerDay == Called("split_per_day", NoArg, split_per_day(self))

SplitPerWeek == Called("split_per_week", NoArg, split_per_week(self))

SplitPerMonth ==
    Called("split_per_month", NoArg, split_per_month(self, aware))

NextSplit ==
    \/ Split
    \/ SplitPerDay
    \/ SplitPerWeek
    \/ SplitPerMonth

SpecSplit == InitSplit /\ [][NextSplit]_vars

----------------------------------------------------------------------------
(* TimeWindow.split executed one iteration at a time, with any max_delta   *)
(* (the code asserts its type, not its sign).                              *)

\* The most chunks a call that ends can collect; a call that collects more
\* runs for ever.
MaxChunks == MaxTime + MaxBefore + 1

\* Faulty variant of loop_continues: the loop also runs at until.
loop_continues_at_until(chunk_since, until) == chunk_since <= until

\* while chunk_since < self.until
loop_continues(chunk_since, until) == chunk_since < until

InitSplitLoop ==
    /\ self \in TimeWindows
    /\ other = [since |-> 0, until |-> 0]
    /\ call = "none"
    /\ ret = None
    /\ arg = NoArg
    /\ aware = FALSE
    /\ LoopIdle
    /\ CacheIdle
    /\ ExpirableNew
    /\ EpochIdle
    /\ ComplementIdle
    /\ coll = TimeWindowsCollection(<<>>, FALSE)
    /\ period = [since |-> 0, until |-> 0]
    /\ ccall = "none"
    /\ cret = NoCall

\* The call: chunks = [], chunk_since = self.since.
SplitCall ==
    /\ split_pc = "idle"
    /\ \E max_delta \in (0 - MaxDelta)..MaxDelta :
           arg' = TimedeltaArg(max_delta)
    /\ call' = "split"
    /\ split_pc' = "loop"
    /\ split_chunk_since' = self.since
    /\ split_chunks' = <<>>
    /\ UNCHANGED <<self, other, ret, coll, period, ccall, cret, aware>>
    /\ UNCHANGED <<cacheVars, expirableVars, epochVars, complementVars>>

\* One iteration of the while loop; from_timedelta may raise.
SplitIterate ==
    /\ split_pc = "loop"
    /\ loop_continues(split_chunk_since, self.until)
    /\ Len(split_chunks) < MaxChunks
    /\ LET delta == chunk_delta(arg.delta, self.until - split_chunk_since)
           chunk == from_timedelta(split_chunk_since, delta)
       IN  IF IsRaised(chunk)
           THEN /\ split_pc' = "raised"
                /\ ret' = chunk
                /\ UNCHANGED <<split_chunk_since, split_chunks>>
           ELSE /\ split_chunks' = split_chunks \o chunk.tws
                /\ split_chunk_since' = split_chunk_since + delta
                /\ UNCHANGED <<split_pc, ret>>
    /\ UNCHANGED <<self, other, call, coll, period, ccall, cret, arg, aware>>
    /\ UNCHANGED <<cacheVars, expirableVars, epochVars, complementVars>>

\* The loop condition fails: return chunks.
SplitReturn ==
    /\ split_pc = "loop"
    /\ ~loop_continues(split_chunk_since, self.until)
    /\ split_pc' = "done"
    /\ ret' = List(split_chunks)
    /\ UNCHANGED <<split_chunk_since, split_chunks>>
    /\ UNCHANGED <<self, other, call, coll, period, ccall, cret, arg, aware>>
    /\ UNCHANGED <<cacheVars, expirableVars, epochVars, complementVars>>

NextSplitLoop ==
    \/ SplitCall
    \/ SplitIterate
    \/ SplitReturn

\* The interpreter keeps executing a call that can take a step.
SpecSplitLoop ==
    InitSplitLoop /\ [][NextSplitLoop]_vars /\ WF_vars(NextSplitLoop)

----------------------------------------------------------------------------
(* The time_windows_sorted_by_since property read by two threads, one      *)
(* statement at a time, on a collection constructed with either value of   *)
(* sorted_since.  compressed() and complement() read the same property.    *)

InitCache ==
    /\ coll_sorted_since \in BOOLEAN
    /\ \E tws \in ListsUpTo(MaxCacheLen) :
           coll = TimeWindowsCollection(tws, coll_sorted_since)
    /\ populated = (IF coll_sorted_since THEN 1 ELSE 0)
    /\ tpc = [t \in Threads |-> "idle"]
    /\ tlocal = [t \in Threads |-> <<>>]
    /\ tret = [t \in Threads |-> None]
    /\ period = [since |-> 0, until |-> 0]
    /\ ccall = "none"
    /\ cret = NoCall
    /\ self = [since |-> 0, until |-> 0]
    /\ other = [since |-> 0, until |-> 0]
    /\ call = "none"
    /\ ret = None
    /\ arg = NoArg
    /\ aware = FALSE
    /\ LoopIdle
    /\ ExpirableNew
    /\ EpochIdle
    /\ ComplementIdle

CacheRest ==
    UNCHANGED <<self, other, call, ret, period, ccall, cret, arg, aware,
                loopVars, expirableVars, epochVars, complementVars,
                coll_sorted_since>>

\* if self.__time_windows_sorted_by_since is None
TestCache(t) ==
    /\ tpc[t] = "idle"
    /\ tpc' = [tpc EXCEPT ![t] =
                  IF coll.time_windows_sorted_by_since.is_none
                  THEN "sort" ELSE "return"]
    /\ UNCHANGED <<coll, tlocal, tret, populated>>
    /\ CacheRest

\* sorted(self.__time_windows_raw, key=lambda tw: tw.since)
SortRaw(t) ==
    /\ tpc[t] = "sort"
    /\ tlocal' = [tlocal EXCEPT ![t] = sorted(coll.time_windows_raw)]
    /\ tpc' = [tpc EXCEPT ![t] = "store"]
    /\ UNCHANGED <<coll, tret, populated>>
    /\ CacheRest

\* self.__time_windows_sorted_by_since = <the sorted list>
StoreCache(t) ==
    /\ tpc[t] = "store"
    /\ coll' = [coll EXCEPT !.time_windows_sorted_by_since = Cached(tlocal[t])]
    /\ populated' = populated + 1
    /\ tpc' = [tpc EXCEPT ![t] = "return"]
    /\ UNCHANGED <<tlocal, tret>>
    /\ CacheRest

\* return self.__time_windows_sorted_by_since
ReturnCache(t) ==
    /\ tpc[t] = "return"
    /\ tret' = [tret EXCEPT ![t] = List(coll.time_windows_sorted_by_since.tws)]
    /\ tpc' = [tpc EXCEPT ![t] = "idle"]
    /\ UNCHANGED <<coll, tlocal, populated>>
    /\ CacheRest

NextCache ==
    \E t \in Threads :
        \/ TestCache(t)
        \/ SortRaw(t)
        \/ StoreCache(t)
        \/ ReturnCache(t)

SpecCache == InitCache /\ [][NextCache]_vars

----------------------------------------------------------------------------
(* ExpirableObject: the ttl property, its setter and is_expired(), with a  *)
(* clock that never runs backwards.                                        *)

\* Faulty variant of below_zero: an object is expired at ttl 0 already.
not_above_zero(ttl) == ttl <= 0

\* self.ttl < 0
below_zero(ttl) == ttl < 0

\* The ttl property: nan while expires_at is None, else the seconds from the
\* clock to expires_at.
ttl(clock) ==
    IF expires_at.is_none THEN NaN ELSE Seconds(expires_at.at - clock)

\* is_expired(): math.isnan(self.ttl) or self.ttl < 0.  The first reading of
\* ttl decides isnan, which no clock changes; the second decides the sign.
is_expired(clock) ==
    Bool(ttl(clock).kind = "nan" \/ below_zero(ttl(clock).seconds))

InitExpirable ==
    /\ ExpirableNew
    /\ self = [since |-> 0, until |-> 0]
    /\ other = [since |-> 0, until |-> 0]
    /\ call = "none"
    /\ ret = None
    /\ arg = NoArg
    /\ aware = FALSE
    /\ coll = TimeWindowsCollection(<<>>, FALSE)
    /\ period = [since |-> 0, until |-> 0]
    /\ ccall = "none"
    /\ cret = NoCall
    /\ LoopIdle
    /\ CacheIdle
    /\ EpochIdle
    /\ ComplementIdle

ExpirableRest ==
    UNCHANGED <<self, other, call, ret, coll, period, ccall, cret, arg, aware,
                loopVars, cacheVars, epochVars, complementVars>>

\* A second passes.
Tick ==
    /\ now < MaxClock
    /\ now' = now + 1
    /\ UNCHANGED <<expires_at, last_updated_at, ttl_arg, ecall, eret>>
    /\ ExpirableRest

\* o.ttl = seconds
SetTtl ==
    /\ \E seconds \in (0 - 1)..MaxTtl :
           /\ ttl_arg' = seconds
           /\ expires_at' = At(now + seconds)
    /\ last_updated_at' = At(now)
    /\ ecall' = "set_ttl"
    /\ eret' = NoAnswer
    /\ UNCHANGED now
    /\ ExpirableRest

\* o.ttl
GetTtl ==
    /\ ecall' = "ttl"
    /\ eret' = ttl(now)
    /\ UNCHANGED <<now, expires_at, last_updated_at, ttl_arg>>
    /\ ExpirableRest

\* o.is_expired()
IsExpired ==
    /\ ecall' = "is_expired"
    /\ eret' = is_expired(now)
    /\ UNCHANGED <<now, expires_at, last_updated_at, ttl_arg>>
    /\ ExpirableRest

NextExpirable ==
    \/ Tick
    \/ SetTtl
    \/ GetTtl
    \/ IsExpired

SpecExpirable == InitExpirable /\ [][NextExpirable]_vars

----------------------------------------------------------------------------
(* Conversion between windows and pairs of epoch timestamps.  A boundary   *)
(* is the clock reading it carries, in ticks after 1970-01-01 00:00 on     *)
(* that clock, with the UTC offset of the clock in seconds.                *)

\* The resolution of a datetime below the second, in ticks.
TicksPerSecond == 2

\* The instant of a clock reading with a UTC offset, in ticks after the
\* epoch: what ordering comparisons of aware datetimes compare.
instant(reading, utcoffset) == reading - utcoffset * TicksPerSecond

\* dt.timetuple(): the fields of the clock reading down to the second; the
\* microsecond and the tzinfo are not part of it.
timetuple_seconds(reading) == reading \div TicksPerSecond

\* utctimestamp_tzaware: float(timegm(dt.timetuple()))
utctimestamp_tzaware(reading, utcoffset) == timetuple_seconds(reading)

\* utcfromtimestamp_tzaware: the reading of the UTC clock at the timestamp.
utcfromtimestamp_tzaware(timestamp) == timestamp * TicksPerSecond

\* time_window_to_timestamps
time_window_to_timestamps(tw, since_offset, until_offset) ==
    <<utctimestamp_tzaware(tw.since, since_offset),
      utctimestamp_tzaware(tw.until, until_offset)>>

\* time_window_from_timestamps: both boundaries are on the UTC clock.
time_window_from_timestamps(period_as_timestamps) ==
    TimeWindow(utcfromtimestamp_tzaware(period_as_timestamps[1]),
               utcfromtimestamp_tzaware(period_as_timestamps[2]))

\* The clock readings and the offsets of the model.
Readings == 0..(MaxEpoch * TicksPerSecond)
UtcOffsets == (0 - MaxOffset)..MaxOffset

\* A pair of epoch timestamps handed to time_window_from_timestamps.
TimestampsArg(s, e) ==
    [tws |-> <<>>, since |-> s, until |-> e, type |-> "timestamps",
     delta |-> 0]

InitEpoch ==
    /\ tz_since \in UtcOffsets
    /\ tz_until \in UtcOffsets
    /\ \E s \in Readings, u \in Readings :
           /\ instant(u, tz_until) >= instant(s, tz_since)
           /\ self = [since |-> s, until |-> u]
    /\ aware = TRUE
    /\ stamps = <<0, 0>>
    /\ other = [since |-> 0, until |-> 0]
    /\ call = "none"
    /\ ret = None
    /\ arg = NoArg
    /\ coll = TimeWindowsCollection(<<>>, FALSE)
    /\ period = [since |-> 0, until |-> 0]
    /\ ccall = "none"
    /\ cret = NoCall
    /\ LoopIdle
    /\ CacheIdle
    /\ ExpirableNew
    /\ ComplementIdle

EpochRest ==
    UNCHANGED <<self, other, coll, period, ccall, cret, aware, tz_since,
                tz_until, loopVars, cacheVars, expirableVars, complementVars>>

\* time_window_from_timestamps(time_window_to_timestamps(self))
WindowRoundTrip ==
    /\ call = "none"
    /\ call' = "window_round_trip"
    /\ stamps' = time_window_to_timestamps(self, tz_since, tz_until)
    /\ ret' = time_window_from_timestamps(stamps')
    /\ arg' = NoArg
    /\ EpochRest

\* time_window_to_timestamps(time_window_from_timestamps((s, e)))
EpochsRoundTrip ==
    /\ call = "none"
    /\ \E s \in 0..MaxEpoch, e \in 0..MaxEpoch :
           /\ s <= e
           /\ arg' = TimestampsArg(s, e)
           /\ ret' = time_window_from_timestamps(<<s, e>>)
           /\ stamps' = IF IsRaised(ret') THEN <<0, 0>>
                         ELSE time_window_to_timestamps(ret'.tws[1], 0, 0)
    /\ call' = "epochs_round_trip"
    /\ EpochRest

NextEpoch ==
    \/ WindowRoundTrip
    \/ EpochsRoundTrip

SpecEpoch == InitEpoch /\ [][NextEpoch]_vars

----------------------------------------------------------------------------
(* The for loop of TimeWindowsCollection.complement, one member per step:  *)
(* the call sets up the candidate list, every iteration subtracts the next *)
(* member from the last candidate, and the call returns (or raises) when   *)
(* the members are exhausted.                                              *)

\* The longest list of members of a collection whose loop is followed.
MaxMembers == 3

\* Faulty variant of loop_members: the members are taken as given.
loop_members_as_given(c) == time_windows(c)

\* time_windows = self.time_windows_sorted_by_since
loop_members(c) == time_windows_sorted_by_since(c)

InitComplementLoop ==
    /\ \E l \in ListsUpTo(MaxMembers) : coll = TimeWindowsCollection(l, FALSE)
    /\ period \in TimeWindows
    /\ ccall = "none"
    /\ cret = NoCall
    /\ self = [since |-> 0, until |-> 0]
    /\ other = [since |-> 0, until |-> 0]
    /\ call = "none"
    /\ ret = None
    /\ arg = NoArg
    /\ aware = FALSE
    /\ LoopIdle
    /\ CacheIdle
    /\ ExpirableNew
    /\ EpochIdle
    /\ ComplementIdle

ComplementLoopRest ==
    UNCHANGED <<self, other, call, ret, period, arg, aware, loopVars,
                cacheVars, expirableVars, epochVars>>

\* inverse = [period]; time_windows = self.time_windows_sorted_by_since
ComplementCall ==
    /\ complement_pc \in {"idle", "done", "raised"}
    /\ complement_pc' = "loop"
    /\ inverse' = <<period>>
    /\ processed' = 0
    /\ coll' = AfterSortedAccess(coll)
    /\ ccall' = "complement"
    /\ cret' = NoCall
    /\ ComplementLoopRest

\* for tw in time_windows: inverse[-1:] = make_sequence(inverse[-1] - tw)
ComplementIterate ==
    /\ complement_pc = "loop"
    /\ processed < Len(loop_members(coll))
    /\ IF inverse = <<>>
       THEN /\ complement_pc' = "raised"
            /\ cret' = CRaise("IndexError")
            /\ UNCHANGED <<inverse, processed>>
       ELSE LET n == Len(inverse)
                piece == complement(inverse[n],
                                    loop_members(coll)[processed + 1])
            IN  IF IsRaised(piece)
                THEN /\ complement_pc' = "raised"
                     /\ cret' = CRaise(piece.kind)
                     /\ UNCHANGED <<inverse, processed>>
                ELSE /\ inverse' =
                            SubSeq(inverse, 1, n - 1) \o make_sequence(piece)
                     /\ processed' = processed + 1
                     /\ UNCHANGED <<complement_pc, cret>>
    /\ UNCHANGED <<coll, ccall>>
    /\ ComplementLoopRest

\* return TimeWindowsCollection(inverse, sorted_since=True)
ComplementReturn ==
    /\ complement_pc = "loop"
    /\ processed = Len(loop_members(coll))
    /\ complement_pc' = "done"
    /\ cret' = Returned(TimeWindowsCollection(inverse, TRUE))
    /\ UNCHANGED <<coll, ccall, inverse, processed>>
    /\ ComplementLoopRest

NextComplementLoop ==
    \/ ComplementCall
    \/ ComplementIterate
    \/ ComplementReturn

SpecComplementLoop == InitComplementLoop /\ [][NextComplementLoop]_vars

----------------------------------------------------------------------------
(* Properties                                                              *)

\* t lies in some window of the list tws.
Covered(tws, t) == \E i \in 1..Len(tws) : contains_datetime(tws[i], t)

\* The list is in ascending order of since.
SortedBySince(tws) ==
    \A i \in 1..(Len(tws) - 1) : tws[i].since <= tws[i + 1].since

\* C1: the windows of compressed() are sorted ascending by since and every
\* window ends strictly before the next one starts (no overlap, no touch).
C1_CompressedSortedApart ==
    ccall = "compressed" =>
        /\ cret.kind = "TimeWindowsCollection"
        /\ LET tws == time_windows(cret.coll)
           IN  /\ SortedBySince(tws)
               /\ \A i \in 1..(Len(tws) - 1) : tws[i].until < tws[i + 1].since

\* C1 witness: an unsorted input holding a zero-width window and two windows
\* that touch was compressed into two windows.
C1_Witness ==
    /\ ccall = "compressed"
    /\ ~SortedBySince(time_windows(coll))
    /\ \E i \in 1..Len(time_windows(coll)) :
          time_windows(coll)[i].since = time_windows(coll)[i].until
    /\ \E i, j \in 1..Len(time_windows(coll)) :
          /\ time_windows(coll)[i].since < time_windows(coll)[i].until
          /\ time_windows(coll)[i].until = time_windows(coll)[j].since
    /\ Len(time_windows(cret.coll)) = 2

\* C2: compressed() covers exactly the timestamps its input covers.
C2_CompressedSameCoverage ==
    ccall = "compressed" =>
        /\ cret.kind = "TimeWindowsCollection"
        /\ \A t \in Timestamps :
              Covered(time_windows(cret.coll), t)
                  <=> Covered(time_windows(coll), t)

\* C2 witness: a window lying inside an earlier one was merged into it and
\* the result still covers a timestamp.
C2_Witness ==
    /\ ccall = "compressed"
    /\ \E i, j \in 1..Len(time_windows(coll)) :
          /\ time_windows(coll)[i].since < time_windows(coll)[j].since
          /\ time_windows(coll)[j].until < time_windows(coll)[i].until
          /\ time_windows(coll)[j].since < time_windows(coll)[j].until
    /\ Len(time_windows(cret.coll)) < Len(time_windows(coll))
    /\ \E t \in Timestamps : Covered(time_windows(cret.coll), t)

\* period contains every window of the collection.
BoundContainsAll(c, prd) ==
    \A i \in 1..Len(time_windows(c)) : contains_window(prd, time_windows(c)[i])

\* C3: when period contains all windows of the collection, complement(period)
\* returns a collection that, with the windows of compressed(), covers every
\* timestamp of period, and no timestamp lies in a gap and in a member.
C3_ComplementPartitionsBound ==
    (ccall = "complement" /\ BoundContainsAll(coll, period)) =>
        /\ cret.kind = "TimeWindowsCollection"
        /\ LET gaps == time_windows(cret.coll)
               members == time_windows(compressed(coll).coll)
           IN  \A t \in Timestamps :
                  /\ contains_datetime(period, t)
                        => (Covered(gaps, t) \/ Covered(members, t))
                  /\ ~(Covered(gaps, t) /\ Covered(members, t))

\* The windows of the collection jointly cover period.
CoversBound(c, prd) ==
    \A t \in Timestamps :
        contains_datetime(prd, t) => Covered(time_windows(c), t)

\* C4: when the windows jointly cover a period (of positive width),
\* complement(period) returns a collection with no windows.
C4_FullCoverEmptyComplement ==
    (/\ ccall = "complement"
     /\ period.since < period.until
     /\ CoversBound(coll, period)) =>
        /\ cret.kind = "TimeWindowsCollection"
        /\ time_windows(cret.coll) = <<>>

\* C5: union gives the same result for both argument orders, and a list
\* result is earliest-first.
C5_UnionCommutative ==
    call = "union" =>
        /\ ret = union(other, self)
        /\ ret.kind = "list" => SortedBySince(ret.tws)

\* C6: a window minus itself is None.
C6_SelfComplementNone ==
    (call = "complement" /\ eq(self, other)) => ret = None

\* C7: contiguous returns the two windows earliest-first exactly when they do
\* not overlap and one's until is the other's since, and False otherwise.
C7_ContiguousIff ==
    call = "contiguous" =>
        IF /\ ~overlaps(self, other)
           /\ (self.until = other.since \/ other.until = self.since)
        THEN /\ ret.kind = "list"
             /\ ret.tws \in {<<self, other>>, <<other, self>>}
             /\ SortedBySince(ret.tws)
        ELSE ret = False

\* C8 as stated: contiguous is False for two identical windows.
C8_IdenticalNeverContiguous ==
    (call = "contiguous" /\ eq(self, other)) => ret = False

\* C8 amended: contiguous is False for two identical windows of positive
\* width, and returns the pair for two identical zero-width windows.
C8_IdenticalContiguousOnlyZeroWidth ==
    (call = "contiguous" /\ eq(self, other)) =>
        IF self.since < self.until
        THEN ret = False
        ELSE ret = List(<<other, self>>)

\* C8 witness: contiguous was called on two identical windows of positive
\* width.
C8_Witness ==
    /\ call = "contiguous"
    /\ eq(self, other)
    /\ self.since < self.until
    /\ ret = False

\* C9: complement is set difference on timestamps; a list result is
\* [self.since, other.since), [other.until, self.until) and is returned only
\* when other lies strictly inside self.
C9_ComplementIsDifference ==
    call = "complement" =>
        /\ ret.kind \in {"None", "TimeWindow", "list"}
        /\ \A t \in Timestamps :
              Covered(ret.tws, t)
                  <=> (contains_datetime(self, t) /\ ~contains_datetime(other, t))
        /\ ret.kind = "list" =>
              /\ ret.tws = <<[since |-> self.since, until |-> other.since],
                             [since |-> other.until, until |-> self.until]>>
              /\ self.since < other.since
              /\ other.until < self.until

\* C9 witness: other lies strictly inside self and the two remainders were
\* returned as a list.
C9_Witness ==
    /\ call = "complement"
    /\ self.since < other.since
    /\ other.since < other.until
    /\ other.until < self.until
    /\ ret.kind = "list"

\* C10: union covers exactly the timestamps of self or other, for both
\* argument orders, and is the single window [min since, max until) when
\* the windows overlap.
C10_UnionCoverage ==
    call = "union" =>
        /\ ret.kind \in {"TimeWindow", "list"}
        /\ union(other, self).kind \in {"TimeWindow", "list"}
        /\ \A t \in Timestamps :
              /\ Covered(ret.tws, t)
                    <=> (contains_datetime(self, t) \/ contains_datetime(other, t))
              /\ Covered(union(other, self).tws, t) <=> Covered(ret.tws, t)
        /\ overlaps(self, other) =>
              ret = Single([since |-> min(self.since, other.since),
                            until |-> max(self.until, other.until)])

\* C10 witness: other lies strictly inside self and the union is one window.
C10_Witness ==
    /\ call = "union"
    /\ self.since < other.since
    /\ other.since < other.until
    /\ other.until < self.until
    /\ ret.kind = "TimeWindow"

\* C11: intersection is [max since, min until) when max since < min until
\* and None otherwise, for both argument orders.
C11_IntersectionMaxMin ==
    call = "intersection" =>
        /\ ret = IF max(self.since, other.since) < min(self.until, other.until)
                 THEN Single([since |-> max(self.since, other.since),
                              until |-> min(self.until, other.until)])
                 ELSE None
        /\ ret = intersection(other, self)

\* C11 witness: two windows that partly overlap were intersected.
C11_Witness ==
    /\ call = "intersection"
    /\ self.since < other.since
    /\ other.since < self.until
    /\ self.until < other.until
    /\ ret.kind = "TimeWindow"

\* C12: overlaps is true exactly when max since < min until, for both
\* argument orders.
C12_OverlapsStrict ==
    call = "overlaps" =>
        /\ ret = IF max(self.since, other.since) < min(self.until, other.until)
                 THEN True ELSE False
        /\ overlaps(other, self) <=> (ret = True)

\* C12 witness: two windows of positive width that share only a boundary
\* point were found not to overlap.
C12_Witness ==
    /\ call = "overlaps"
    /\ self.since < self.until
    /\ self.until = other.since
    /\ other.since < other.until
    /\ ret = False

\* The pieces of self.complement(other) folded back with union, first
\* argument first: first.union(second).
FoldTwo(first, second) == union(first, second)

\* pieces[1].union(b), then .union(pieces[2]); b alone when nothing is left.
FoldBack(pieces, b, pieceFirst) ==
    IF Len(pieces) = 0 THEN Single(b)
    ELSE LET u1 == IF pieceFirst THEN FoldTwo(pieces[1], b)
                   ELSE FoldTwo(b, pieces[1])
         IN  IF Len(pieces) = 1 \/ u1.kind # "TimeWindow" THEN u1
             ELSE IF pieceFirst THEN FoldTwo(u1.tws[1], pieces[2])
             ELSE FoldTwo(pieces[2], u1.tws[1])

\* The pieces of ret together with other cover exactly the timestamps of
\* self.
PiecesAndOtherCoverSelf ==
    \A t \in Timestamps :
        (Covered(ret.tws, t) \/ contains_datetime(other, t))
            <=> contains_datetime(self, t)

\* C13 as stated: when self contains other, the pieces of
\* self.complement(other) with other cover exactly self, and folding them
\* back with union gives self.
C13_ComplementUnionRoundTrip ==
    (call = "complement" /\ contains_window(self, other)) =>
        /\ PiecesAndOtherCoverSelf
        /\ FoldBack(ret.tws, other, TRUE) = Single(self)

\* C13 amended: the pieces with other always cover exactly self; folding
\* them back with union, in either argument order, gives self when other
\* has positive width.
C13_RoundTripPositiveWidth ==
    (call = "complement" /\ contains_window(self, other)) =>
        /\ ret.kind \in {"None", "TimeWindow", "list"}
        /\ PiecesAndOtherCoverSelf
        /\ other.since < other.until =>
              /\ FoldBack(ret.tws, other, TRUE) = Single(self)
              /\ FoldBack(ret.tws, other, FALSE) = Single(self)

\* C13 witness: other of positive width lies strictly inside self, two
\* pieces were returned.
C13_Witness ==
    /\ call = "complement"
    /\ contains_window(self, other)
    /\ other.since < other.until
    /\ Len(ret.tws) = 2

\* C14: compressing the result of compressed() again gives the same windows
\* in the same order.
C14_CompressedIdempotent ==
    ccall = "compressed" =>
        /\ cret.kind = "TimeWindowsCollection"
        /\ compressed(cret.coll).kind = "TimeWindowsCollection"
        /\ time_windows(compressed(cret.coll).coll) = time_windows(cret.coll)

\* C14 witness: the first compression merged windows and left more than one.
C14_Witness ==
    /\ ccall = "compressed"
    /\ Len(time_windows(cret.coll)) = 2
    /\ Len(time_windows(coll)) = 3
    /\ time_windows(cret.coll) # time_windows_sorted_by_since(coll)

C16_InvalidArgumentsRaise ==
    /\ call = "TimeWindow" =>
          ret = IF arg.since = NotADatetime \/ arg.until = NotADatetime
                THEN [kind |-> "TypeError", tws |-> <<>>]
                ELSE IF arg.until < arg.since
                THEN [kind |-> "ValueError", tws |-> <<>>]
                ELSE Single([since |-> arg.since, until |-> arg.until])
    /\ (call \in {"contains", "in"} /\ arg.type = "other") =>
          ret = [kind |-> "TypeError", tws |-> <<>>]
    /\ (call = "smallest_possible" /\ arg.tws = <<>>) =>
          (IsRaised(ret) /\ ret.tws = <<>>)

\* C16 witness: the constructor was called with since == until and returned
\* the zero-width window.
C16_Witness ==
    /\ call = "TimeWindow"
    /\ arg.since = arg.until
    /\ ret.kind = "TimeWindow"
    /\ ret.tws[1].since = ret.tws[1].until

\* C17: contains (and the in operator) is since <= x < until for a datetime
\* x and since <= o.since /\ until >= o.until for a window o.
C17_ContainsHalfOpen ==
    call \in {"contains", "in"} =>
        /\ arg.type = "datetime" =>
              ret = IF self.since <= arg.since /\ arg.since < self.until
                    THEN True ELSE False
        /\ arg.type = "TimeWindow" =>
              ret = IF self.since <= arg.since /\ self.until >= arg.until
                    THEN True ELSE False

\* C17 witness: a window of positive width was asked for its own until and
\* answered False.
C17_Witness ==
    /\ call = "contains"
    /\ arg.type = "datetime"
    /\ self.since < self.until
    /\ arg.since = self.until
    /\ ret = False

\* The duration of a window.
Duration(tw) == tw.until - tw.since

\* Each window of the list ends where the next one starts.
Chained(tws) == \A i \in 1..(Len(tws) - 1) : tws[i].until = tws[i + 1].since

\* C18: split(d) with d > 0 returns ceil(delta / d) chunks; the first starts
\* at since, each ends where the next starts, the last ends at until, every
\* chunk but the last lasts d and the last lasts at most d.
C18_SplitReconstructs ==
    call = "split" =>
        /\ ret.kind = "list"
        /\ Len(ret.tws) = (Duration(self) + arg.delta - 1) \div arg.delta
        /\ Chained(ret.tws)
        /\ \A i \in 1..(Len(ret.tws) - 1) : Duration(ret.tws[i]) = arg.delta
        /\ Len(ret.tws) > 0 =>
              /\ ret.tws[1].since = self.since
              /\ ret.tws[Len(ret.tws)].until = self.until
              /\ Duration(ret.tws[Len(ret.tws)]) <= arg.delta

\* C18 witness: a split into several chunks, the last one shorter than d.
C18_Witness ==
    /\ call = "split"
    /\ ret.kind = "list"
    /\ Len(ret.tws) >= 3
    /\ Duration(ret.tws[Len(ret.tws)]) < arg.delta

\* C19: on a zero-width window split(d) returns what split_per_day,
\* split_per_week and split_per_month return on it: all four no chunks, or
\* all four the window itself as the single chunk.
C19_ZeroWidthSplitConsistent ==
    (call = "split" /\ self.since = self.until) =>
        /\ ret \in {List(<<>>), List(<<self>>)}
        /\ split_per_day(self) = ret
        /\ split_per_week(self) = ret
        /\ split_per_month(self, aware) = ret

\* C20: split_per_day, split_per_week and split_per_month return a non-empty
\* list whose first window starts at since, whose windows each end where the
\* next starts, and whose last window ends at until.
C20_SplitPerPartitions ==
    call \in {"split_per_day", "split_per_week", "split_per_month"} =>
        /\ ret.kind = "list"
        /\ Len(ret.tws) >= 1
        /\ ret.tws[1].since = self.since
        /\ Chained(ret.tws)
        /\ ret.tws[Len(ret.tws)].until = self.until

\* The calendar rollovers: midnight, Monday 00:00, 00:00 of the first day of
\* a month.
DayRollover(t) == t % TicksPerDay = 0
WeekRollover(t) == DayRollover(t) /\ weekday(t) = 0
MonthRollover(t) == DayRollover(t) /\ day_of_year(t) = DaysBefore(month(t))

\* The rollover a split_per method cuts at.
Rollover(method, t) ==
    IF method = "split_per_day" THEN DayRollover(t)
    ELSE IF method = "split_per_week" THEN WeekRollover(t)
    ELSE MonthRollover(t)

SplitPerMethods == {"split_per_day", "split_per_week", "split_per_month"}

\* A rollover of the method lies strictly inside the window.
RolloverInside(method, tw) ==
    \E t \in (tw.since + 1)..(tw.until - 1) : Rollover(method, t)

\* C21: a window with no rollover strictly between since and until (its until
\* may be a rollover) is returned as the single element of the list.
C21_NoRolloverSingleWindow ==
    (call \in SplitPerMethods /\ ~RolloverInside(call, self)) =>
        ret = List(<<self>>)

\* C22: every sub-window but the last ends at the first rollover strictly
\* after its start, and no sub-window has a rollover strictly inside it.
C22_CutsAtRollovers ==
    (call \in SplitPerMethods /\ ret.kind = "list") =>
        /\ \A i \in 1..(Len(ret.tws) - 1) :
              /\ ret.tws[i].until > ret.tws[i].since
              /\ Rollover(call, ret.tws[i].until)
        /\ \A i \in 1..Len(ret.tws) : ~RolloverInside(call, ret.tws[i])

\* C22 witness: split_per_month cut a window that starts in December at
\* 00:00 of 1 January and again at the start of a later month.
C22_Witness ==
    /\ call = "split_per_month"
    /\ ret.kind = "list"
    /\ Len(ret.tws) >= 3
    /\ month(self.since) = 12
    /\ self.since % TicksPerDay # 0
    /\ month(ret.tws[1].until) = 1
    /\ year(ret.tws[1].until) = year(self.since) + 1
    /\ ret.tws[2].until > ret.tws[1].until

\* C27: a window of positive width is split into sub-windows of positive
\* duration only, also when its until is a rollover.
C27_NoZeroWidthChunk ==
    (call \in SplitPerMethods /\ self.since < self.until /\ ret.kind = "list") =>
        \A i \in 1..Len(ret.tws) : Duration(ret.tws[i]) > 0

\* The call runs on a window of positive width.
PositiveWidth == self.since < self.until

\* C26 as stated: split ends iff max_delta > 0 or the window is zero-width;
\* with max_delta <= 0 on a window of positive width nothing is raised and
\* the loop never ends.
C26_TerminatesIffPositive ==
    /\ [](split_pc = "loop" /\ (arg.delta > 0 \/ ~PositiveWidth)
            => <>(split_pc = "done"))
    /\ [](split_pc = "loop" /\ arg.delta <= 0 /\ PositiveWidth
            => [](split_pc = "loop"))

\* C26 amended: with max_delta > 0 or a zero-width window the call returns,
\* and while it runs with max_delta > 0 the chunk start stays within the
\* window; with max_delta = 0 on a window of positive width it runs for ever
\* and raises nothing; with max_delta < 0 on such a window the chunk start
\* falls until it leaves the datetime range and OverflowError is raised.
C26_TerminatesOrOverflows ==
    /\ [](split_pc = "loop" /\ (arg.delta > 0 \/ ~PositiveWidth)
            => <>(split_pc = "done"))
    /\ [](split_pc = "loop" /\ arg.delta > 0
            => split_chunk_since <= self.until)
    /\ [](split_pc = "loop" /\ arg.delta = 0 /\ PositiveWidth
            => [](split_pc = "loop"))
    /\ [](split_pc = "loop" /\ arg.delta < 0 /\ PositiveWidth
            => <>(split_pc = "raised" /\ ret = Raise("OverflowError")))

\* C26 witness: a call with a negative max_delta on a window of positive
\* width has collected chunks and ended with OverflowError.
C26_Witness ==
    /\ split_pc = "raised"
    /\ arg.delta < 0
    /\ PositiveWidth
    /\ Len(split_chunks) >= 1
    /\ ret.kind = "OverflowError"

\* C23: the sorted-by-since cache of an instance (constructed with
\* sorted_since=False, or from a sorted list) is assigned at most once, also
\* under concurrent first access by two threads, and every access returns a
\* list sorted ascending by since.
C23_CachePopulatedOnce ==
    (~coll_sorted_since \/ SortedBySince(time_windows(coll))) =>
        /\ populated <= 1
        /\ \A t \in Threads :
              tret[t].kind = "list" => SortedBySince(tret[t].tws)

\* out holds exactly the windows of raw, ascending by since, windows of
\* equal since in the order they have in raw.
StablySorted(raw, out) ==
    /\ Len(out) = Len(raw)
    /\ SortedBySince(out)
    /\ \E p \in [1..Len(raw) -> 1..Len(raw)] :
          /\ \A i \in 1..Len(raw) : out[i] = raw[p[i]]
          /\ \A i, j \in 1..Len(raw) : i # j => p[i] # p[j]
          /\ \A i, j \in 1..Len(raw) :
                (i < j /\ out[i].since = out[j].since) => p[i] < p[j]

\* C28 as stated: however the collection was constructed and whatever was
\* read before, the property holds the windows of time_windows in stable
\* ascending order of since.
C28_SortedHoweverConstructed ==
    StablySorted(time_windows(coll), time_windows_sorted_by_since(coll))

\* C28 amended: the same, for a collection constructed with
\* sorted_since=False or from a list that is sorted by since; what a read
\* returned is that list too.
C28_SortedUnlessFlagTrusted ==
    (~coll_sorted_since \/ SortedBySince(time_windows(coll))) =>
        /\ StablySorted(time_windows(coll), time_windows_sorted_by_since(coll))
        /\ \A t \in Threads :
              tret[t].kind = "list" =>
                  StablySorted(time_windows(coll), tret[t].tws)

\* C28 witness: a collection constructed with sorted_since=False from an
\* unsorted list with two windows of equal since has filled its cache and
\* returned it.
C28_Witness ==
    /\ ~coll_sorted_since
    /\ populated >= 1
    /\ Len(time_windows(coll)) = 2
    /\ time_windows(coll)[1].since = time_windows(coll)[2].since
    /\ time_windows(coll)[1].until > time_windows(coll)[2].until
    /\ \E t \in Threads : tret[t].kind = "list"

\* The seconds since ttl was last set.
Elapsed == now - last_updated_at.at

\* C24: an object whose ttl was never set has expires_at and last_updated_at
\* unset, ttl nan and is expired.  Once ttl was set to t, expires_at -
\* last_updated_at = t, is_expired() is False while at most t seconds have
\* passed and True after that (ttl is negative then); every set, on an
\* expired object too, starts the countdown at the time of the set.
C24_ExpirableLifecycle ==
    /\ [](expires_at.is_none <=> last_updated_at.is_none)
    /\ [](ecall = "none" => expires_at.is_none)
    /\ [](~expires_at.is_none => expires_at.at - last_updated_at.at = ttl_arg)
    /\ [][(ecall' = "set_ttl" /\ now' = now) =>
             (last_updated_at' = At(now) /\ expires_at' = At(now + ttl_arg'))
        ]_vars
    /\ [][(ecall' = "is_expired" /\ now' = now) =>
             IF expires_at.is_none THEN eret' = Bool(TRUE)
             ELSE eret' = Bool(Elapsed > ttl_arg)
        ]_vars
    /\ [][(ecall' = "ttl" /\ now' = now) =>
             IF expires_at.is_none THEN eret' = NaN
             ELSE /\ eret'.kind = "float"
                  /\ eret'.seconds = ttl_arg - Elapsed
                  /\ (Elapsed > ttl_arg) <=> (eret'.seconds < 0)
        ]_vars

\* C24 witness: ttl was set to 1 two or more seconds after the object was
\* made, exactly one second has passed since, and is_expired() answered
\* False.
C24_Witness ==
    /\ ecall = "is_expired"
    /\ eret = Bool(FALSE)
    /\ ~last_updated_at.is_none
    /\ last_updated_at.at >= 2
    /\ ttl_arg = 1
    /\ Elapsed = ttl_arg

\* An instant cut down to a whole second.
WholeSecond(ticks) == (ticks \div TicksPerSecond) * TicksPerSecond

\* C25: converting an aware window (any UTC offsets) to epoch timestamps and
\* back gives a window whose boundaries are the instants of the original
\* ones cut down to whole seconds; converting integers s <= e to a window
\* and back gives (s, e).
C25_EpochRoundTrip ==
    /\ call = "window_round_trip" =>
          /\ ret.kind = "TimeWindow"
          /\ ret.tws[1].since = WholeSecond(instant(self.since, tz_since))
          /\ ret.tws[1].until = WholeSecond(instant(self.until, tz_until))
    /\ call = "epochs_round_trip" =>
          /\ ret.kind = "TimeWindow"
          /\ stamps = <<arg.since, arg.until>>

\* The two lists cover the same timestamps.
SameCoverage(tws, others) ==
    \A t \in Timestamps : Covered(tws, t) <=> Covered(others, t)

\* C29: no list with fewer windows covers the same timestamps as the result
\* of compressed(), whatever the input (zero-width windows included).
C29_CompressedSmallest ==
    ccall = "compressed" =>
        /\ cret.kind = "TimeWindowsCollection"
        /\ \A fewer \in ListsUpTo(MaxLen) :
              Len(fewer) < Len(time_windows(cret.coll))
                  => ~SameCoverage(fewer, time_windows(cret.coll))

\* The members of the collection the loop has not gone through yet.
NotYetProcessed ==
    SubSeq(loop_members(coll), processed + 1, Len(loop_members(coll)))

\* The members of the collection the loop has gone through.
Processed == SubSeq(loop_members(coll), 1, processed)

\* No timestamp lies in two windows of the list.
PairwiseDisjoint(tws) ==
    \A i, j \in 1..Len(tws) :
        i # j => \A t \in Timestamps :
                    ~(contains_datetime(tws[i], t)
                        /\ contains_datetime(tws[j], t))

\* C30: after each processed member of the loop of complement(period) the
\* candidate list is sorted ascending by since, pairwise disjoint and inside
\* period, and every candidate but the last ends at or before the since of
\* every member not yet processed; no candidate shares a timestamp with a
\* processed member, and what the call returns is the final candidate list.
C30_ComplementLoopInvariant ==
    /\ complement_pc \in {"loop", "done"} =>
          /\ SortedBySince(inverse)
          /\ PairwiseDisjoint(inverse)
          /\ \A i \in 1..Len(inverse) :
                /\ period.since <= inverse[i].since
                /\ inverse[i].until <= period.until
          /\ \A i \in 1..(Len(inverse) - 1) :
                \A k \in 1..Len(NotYetProcessed) :
                    inverse[i].until <= NotYetProcessed[k].since
          /\ \A t \in Timestamps :
                ~(Covered(inverse, t) /\ Covered(Processed, t))
    /\ complement_pc = "done" =>
          /\ cret.kind = "TimeWindowsCollection"
          /\ time_windows(cret.coll) = inverse
          /\ cret = collection_complement(coll, period)
    /\ complement_pc = "raised" => cret = collection_complement(coll, period)

\* C30 witness: a member strictly inside the last candidate was processed,
\* leaving two candidates, while a member that starts no earlier than the
\* first candidate ends was still to be processed.
C30_Witness ==
    /\ complement_pc = "loop"
    /\ processed >= 1
    /\ Len(inverse) = 2
    /\ inverse[1].until < inverse[2].since
    /\ Len(NotYetProcessed) >= 1
    /\ NotYetProcessed[1].since < NotYetProcessed[1].until

====
